---- MODULE Spec2Model ----
(***************************************************************************)
(* libdatachannel: the PeerConnection orchestrator (peerconnection.cpp)    *)
(* and the IceTransport adapter (icetransport.cpp) as a state machine.     *)
(*                                                                         *)
(* The state is the PeerConnection's members, the fields of the one        *)
(* IceTransport / DtlsTransport / SctpTransport it points to, the ICE      *)
(* agent's gathering progress, and what the application has been handed    *)
(* through its callbacks.  Every action is one whole call: an application  *)
(* call, or one event of a lower layer together with the callback chain    *)
(* it runs.                                                                *)
(***************************************************************************)
EXTENDS Integers, Sequences, FiniteSets, TLC

(***************************************************************************)
(* Bounds of the model.                                                    *)
(***************************************************************************)
\* Stands for the literal 65535 of createDataChannel: the first stream id the
\* allocation loop refuses.  Scaled down so the exhaustion case is reached.
StreamLimit == 3
\* How many times the ICE agent reports the READY state.
MaxReady == 2
\* How many local candidates the ICE agent discovers in a gathering cycle.
MaxCandidates == 2
\* How many servers an IceConfiguration lists at most.
MaxServers == 2

(***************************************************************************)
(* Program constants.                                                      *)
(***************************************************************************)
DefaultSctpPort == 5000
dataChannelOpenMessage == 3

(***************************************************************************)
(* Value domains.                                                          *)
(***************************************************************************)
Active == "Active"
Passive == "Passive"
ActPass == "ActPass"

\* std::optional / shared_ptr without a value.
nullopt == <<>>
Some(v) == <<v>>
NoTransport == [exists |-> FALSE]
\* An empty std::unordered_map of DataChannels.
NoChannels == [s \in {} |-> FALSE]
\* mCertificate.fingerprint()
LocalFingerprint == "local:fp"
\* the stream name IceTransport gives its one stream
StreamName == "application"
\* the return value of the allocation loop when it throws
TooManyDataChannels == -1

Fingerprints == {"AA:BB", "CC:DD"}
\* the port a remote description may carry
SctpPorts == {DefaultSctpPort + 1}
\* The SDP line of the k-th local candidate the agent discovers.
CandidateText(k) == <<"candidate", k>>
RemoteCandidateTexts == {"a=candidate:1", "garbage"}
\* NiceComponentState values that the agent reports after the initial one.
IceStates == {"CONNECTED", "READY"}
READY == "READY"
\* nice_agent_parse_remote_sdp: negative on a parse error, else the number of
\* candidates added.
ParseResults == {-1, 0, 1}
Streams == 0 .. (StreamLimit - 1)
\* A configured server, by what the constructor's loop meets: an empty
\* hostname, a name getaddrinfo cannot resolve, a name that resolves to no
\* IPv4 address, a name that resolves to one.
ServerKinds == {"empty", "unresolvable", "noIPv4", "usable"}
\* IceConfiguration
Configs ==
    [servers : UNION {[1 .. n -> ServerKinds] : n \in 0 .. MaxServers}]
Control == "Control"
Binary == "Binary"
MessageTypes == {Control, Binary}
\* Payloads: empty, the open byte alone, another byte, the open byte followed
\* by more.
Payloads == {<<>>, <<dataChannelOpenMessage>>, <<1>>, <<dataChannelOpenMessage, 0>>}
Bytes == {0, dataChannelOpenMessage}
Messages == [stream : Streams, type : MessageTypes, data : Payloads]

VARIABLES
    mRemoteFingerprint,         \* optional<string>
    mSctpPort,
    mIceTransport,              \* NoTransport or the IceTransport's fields
    mDtlsTransport,             \* NoTransport or the DtlsTransport's fields
    mSctpTransport,             \* NoTransport or the SctpTransport's fields
    mDataChannels,              \* stream id -> DataChannel
    mLocalDescriptionCallback,  \* whether the application registered one
    mLocalCandidateCallback,
    agent,                      \* the ICE agent: its gathering cycle
    app,                        \* what the application's callbacks received
    created,                    \* how many transports of each kind were constructed
    recorded,                   \* every fingerprint mRemoteFingerprint has held
    last,                       \* the last call and what it did
    mConfig,                    \* IceConfiguration: the configured servers
    threads                     \* where each thread stands inside a call

vars == <<mRemoteFingerprint, mSctpPort, mIceTransport, mDtlsTransport,
          mSctpTransport, mDataChannels, mLocalDescriptionCallback,
          mLocalCandidateCallback, agent, app, created, recorded, last,
          mConfig, threads>>

pcVars == <<mRemoteFingerprint, mSctpPort, mIceTransport, mDtlsTransport,
            mSctpTransport, mDataChannels>>
callbackVars == <<mLocalDescriptionCallback, mLocalCandidateCallback>>

\* The record of a call, with nothing done yet: whether it threw, the stream
\* id it was about and what it did.
Call(op) ==
    [op |-> op, threw |-> FALSE, stream |-> -1, did |-> "nothing"]

\* No thread is inside a call.  `create` is the application thread that calls
\* createDataChannel, `describe` the one that calls setRemoteDescription, `ice`
\* the background thread that runs the transports' callbacks.
NoThreads ==
    [create |-> [pc |-> "idle", stream |-> -1, made |-> FALSE],
     describe |-> [pc |-> "idle", made |-> FALSE],
     ice |-> [pc |-> "idle"]]

\* The PeerConnection after construction, whatever its configuration.
Constructed ==
    /\ mRemoteFingerprint = nullopt
    /\ mSctpPort = DefaultSctpPort
    /\ mIceTransport = NoTransport
    /\ mDtlsTransport = NoTransport
    /\ mSctpTransport = NoTransport
    /\ mDataChannels = NoChannels
    /\ mLocalDescriptionCallback = FALSE
    /\ mLocalCandidateCallback = FALSE
    /\ agent = [gathering |-> "idle", emitted |-> <<>>, gatherCalls |-> 0]
    /\ app = [descriptions |-> <<>>, candidates |-> <<>>]
    /\ created = [ice |-> 0, dtls |-> 0, sctp |-> 0]
    /\ recorded = {}
    /\ last = Call("construct")
    /\ threads = NoThreads

\* A PeerConnection constructed with the default configuration: no servers.
Init ==
    /\ mConfig = [servers |-> <<>>]
    /\ Constructed

(***************************************************************************)
(* Value objects of the description layer (candidate.cpp, description.cpp: *)
(* not part of the sources at hand).                                       *)
(***************************************************************************)
\* Candidate(candidate, mid)
Candidate(candidate, mid) == [candidate |-> candidate, mid |-> mid]
\* Candidate::operator string
CandidateString(cand) == cand.candidate
\* Description with the fields triggerLocalDescription sets
Description(role, fingerprint, sctpPort) ==
    [role |-> role, fingerprint |-> fingerprint, sctpPort |-> sctpPort]

(***************************************************************************)
(* IceTransport                                                            *)
(***************************************************************************)
\* The body of the constructor's loop over the servers: whether it sets the
\* agent's stun-server from this server, and `success`.
serverBinds(server) == server = "usable"

\* The constructor's loop over the shuffled servers: the server the agent is
\* left bound to, by its place in the configuration.  The first one in the
\* shuffled order that binds, so any one that binds; none if none does.
stunServerChoices(servers) ==
    LET binding == {i \in 1 .. Len(servers) : serverBinds(servers[i])}
    IN  IF binding = {} THEN {nullopt} ELSE {Some(i) : i \in binding}

\* IceTransport::IceTransport: the fields after a construction that does not throw.
IceTransport(role, stunServer) ==
    [exists |-> TRUE, mRole |-> role, mState |-> "DISCONNECTED", readyCalls |-> 0,
     stunServer |-> stunServer]

\* IceTransport::setRemoteDescription throws when the agent's parse result is
\* nonzero.
IceSetRemoteDescriptionThrows(parseResult) == parseResult # 0

\* IceTransport::gatherLocalCandidates throws when the agent cannot start.
IceGatherThrows(gatherOk) == ~gatherOk

\* IceTransport::gatherLocalCandidates when the agent starts gathering.
gatherLocalCandidates ==
    agent' = [agent EXCEPT !.gathering = "running", !.gatherCalls = @ + 1]

(***************************************************************************)
(* PeerConnection: private helpers                                         *)
(***************************************************************************)
\* PeerConnection::initIceTransport; the constructor has not thrown.
initIceTransport(role) ==
    /\ \E stunServer \in stunServerChoices(mConfig.servers) :
          mIceTransport' = IceTransport(role, stunServer)
    /\ created' = [created EXCEPT !.ice = @ + 1]

\* PeerConnection::initDtlsTransport
initDtlsTransport ==
    /\ mDtlsTransport' = [exists |-> TRUE, handshake |-> "pending",
                          presented |-> nullopt]
    /\ created' = [created EXCEPT !.dtls = @ + 1]

\* PeerConnection::initSctpTransport, run by the DtlsTransport whose handshake
\* completed: the SctpTransport keeps it as its lower transport.
initSctpTransport ==
    /\ mSctpTransport' = [exists |-> TRUE, lower |-> mDtlsTransport',
                          ready |-> FALSE]
    /\ created' = [created EXCEPT !.sctp = @ + 1]

\* checkFingerprint that only tests that a fingerprint was recorded.
checkFingerprint_anyValue(fingerprint) == mRemoteFingerprint # nullopt

\* checkFingerprint without the test that a fingerprint was recorded.
checkFingerprint_unrecorded(fingerprint) ==
    mRemoteFingerprint = nullopt \/ mRemoteFingerprint[1] = fingerprint

\* PeerConnection::checkFingerprint
checkFingerprint(fingerprint) ==
    mRemoteFingerprint # nullopt /\ mRemoteFingerprint[1] = fingerprint

\* triggerLocalDescription without desc.setSctpPort(mSctpPort): the description
\* carries the default port.
triggerLocalDescription_defaultPort ==
    app' = IF mLocalDescriptionCallback /\ mIceTransport'.exists
           THEN [app EXCEPT !.descriptions =
                    Append(@, Description(mIceTransport'.mRole, LocalFingerprint,
                                          DefaultSctpPort))]
           ELSE app

\* PeerConnection::triggerLocalDescription, run after mIceTransport and
\* mSctpPort have taken their new values.
triggerLocalDescription ==
    app' = IF mLocalDescriptionCallback /\ mIceTransport'.exists
           THEN [app EXCEPT !.descriptions =
                    Append(@, Description(mIceTransport'.mRole, LocalFingerprint,
                                          mSctpPort'))]
           ELSE app

\* triggerLocalCandidate handing the candidate's text on without the test for
\* the end-of-candidates value, which then arrives as an empty text.
triggerLocalCandidate_noSentinel(candidate) ==
    app' = IF mLocalCandidateCallback
           THEN [app EXCEPT !.candidates =
                    Append(@, IF candidate # nullopt
                              THEN Some(CandidateString(candidate[1]))
                              ELSE Some(""))]
           ELSE app

\* PeerConnection::triggerLocalCandidate
triggerLocalCandidate(candidate) ==
    app' = IF mLocalCandidateCallback
           THEN [app EXCEPT !.candidates =
                    Append(@, IF candidate # nullopt
                              THEN Some(CandidateString(candidate[1]))
                              ELSE nullopt)]
           ELSE app

\* The while loop with `>` for `>=` in its bound test.
RECURSIVE allocateStream_offByOne(_, _)
allocateStream_offByOne(channels, stream) ==
    IF stream \in DOMAIN channels
    THEN IF stream + 2 > StreamLimit
         THEN TooManyDataChannels
         ELSE allocateStream_offByOne(channels, stream + 2)
    ELSE stream

\* The while loop of createDataChannel: the first free id from `stream` on in
\* steps of 2, or the throw.
RECURSIVE allocateStream(_, _)
allocateStream(channels, stream) ==
    IF stream \in DOMAIN channels
    THEN IF stream + 2 >= StreamLimit
         THEN TooManyDataChannels
         ELSE allocateStream(channels, stream + 2)
    ELSE stream

\* The stream id createDataChannel's search starts at.
firstStream(role) == IF role = Active THEN 0 ELSE 1

\* remoteParity with the two parities exchanged.
remoteParity_swapped(role) == IF role = Active THEN 0 ELSE 1

\* remoteParity of forwardMessage
remoteParity(role) == IF role = Active THEN 1 ELSE 0

\* DataChannel(stream, label, protocol, reliability): a locally created channel.
LocalDataChannel == [local |-> TRUE, opens |-> 0, onOpen |-> "none"]

\* DataChannel(stream, sctpTransport) followed by onOpen(triggerDataChannel).
RemoteDataChannel == [local |-> FALSE, opens |-> 0, onOpen |-> "triggerDataChannel"]

\* DataChannel::open(sctpTransport), counted.
open(channel) == [channel EXCEPT !.opens = @ + 1]

\* The test with the pointer alone, isReady() left out.
sctpTransportIsReady_pointerOnly == mSctpTransport.exists

\* `mSctpTransport && mSctpTransport->isReady()`, the test of createDataChannel
\* before it opens the new channel.
sctpTransportIsReady == mSctpTransport.exists /\ mSctpTransport.ready

\* PeerConnection::openDataChannels
openDataChannels ==
    mDataChannels' = [s \in DOMAIN mDataChannels |-> open(mDataChannels[s])]

(***************************************************************************)
(* PeerConnection: the application's calls                                 *)
(***************************************************************************)
\* The else branch with the local description and the gathering repeated, as
\* if those two calls stood after the if statement.
updateRemoteDescription_again(parseResult) ==
    /\ UNCHANGED <<mIceTransport, created>>
    /\ IF IceSetRemoteDescriptionThrows(parseResult)
       THEN /\ last' = [Call("setRemoteDescription") EXCEPT
                           !.threw = TRUE, !.did = "forwarded"]
            /\ UNCHANGED <<app, agent>>
       ELSE /\ triggerLocalDescription
            /\ gatherLocalCandidates
            /\ last' = [Call("setRemoteDescription") EXCEPT !.did = "forwarded"]

\* The else branch of setRemoteDescription, the update path:
\* mIceTransport->setRemoteDescription(desc) alone.
updateRemoteDescription(parseResult) ==
    /\ last' = [Call("setRemoteDescription") EXCEPT
                   !.threw = IceSetRemoteDescriptionThrows(parseResult),
                   !.did = "forwarded"]
    /\ UNCHANGED <<mIceTransport, created, app, agent>>

\* PeerConnection::setRemoteDescription.  fingerprint and sctpPort are what
\* the description carries (optional); agentOk is whether IceTransport's
\* constructor gets its agent, parseResult the agent's answer to the SDP,
\* gatherOk whether the agent can start gathering.
setRemoteDescription(fingerprint, sctpPort, agentOk, parseResult, gatherOk) ==
    /\ mRemoteFingerprint' = IF fingerprint # nullopt THEN fingerprint
                                                      ELSE mRemoteFingerprint
    /\ recorded' = IF fingerprint # nullopt THEN recorded \cup {fingerprint[1]}
                                            ELSE recorded
    /\ mSctpPort' = IF sctpPort # nullopt THEN sctpPort[1] ELSE mSctpPort
    /\ IF ~mIceTransport.exists
       THEN IF ~agentOk
            THEN \* initIceTransport throws: mIceTransport stays empty
                 /\ last' = [Call("setRemoteDescription") EXCEPT !.threw = TRUE]
                 /\ UNCHANGED <<mIceTransport, created, app, agent>>
            ELSE /\ initIceTransport(ActPass)
                 /\ IF IceSetRemoteDescriptionThrows(parseResult)
                    THEN /\ last' = [Call("setRemoteDescription") EXCEPT
                                        !.threw = TRUE, !.did = "established"]
                         /\ UNCHANGED <<app, agent>>
                    ELSE /\ triggerLocalDescription
                         /\ IF IceGatherThrows(gatherOk)
                            THEN /\ last' = [Call("setRemoteDescription") EXCEPT
                                                !.threw = TRUE, !.did = "established"]
                                 /\ UNCHANGED agent
                            ELSE /\ gatherLocalCandidates
                                 /\ last' = [Call("setRemoteDescription") EXCEPT
                                                !.did = "established"]
       ELSE updateRemoteDescription(parseResult)
    /\ UNCHANGED <<mDtlsTransport, mSctpTransport, mDataChannels, callbackVars,
                   mConfig, threads>>

\* PeerConnection::setRemoteCandidate
setRemoteCandidate(candidate) ==
    /\ last' = [Call("setRemoteCandidate") EXCEPT
                   !.did = IF mIceTransport.exists THEN "forwarded" ELSE "nothing"]
    /\ UNCHANGED <<pcVars, callbackVars, agent, app, created, recorded, mConfig, threads>>

\* PeerConnection::createDataChannel
createDataChannel(agentOk, gatherOk) ==
    LET role == IF mIceTransport.exists THEN mIceTransport.mRole ELSE Active
        stream == allocateStream(mDataChannels, firstStream(role))
    IN  IF stream = TooManyDataChannels
        THEN /\ last' = [Call("createDataChannel") EXCEPT !.threw = TRUE]
             /\ UNCHANGED <<pcVars, callbackVars, agent, app, created, recorded, mConfig, threads>>
        ELSE IF ~mIceTransport.exists
        THEN /\ mDataChannels' = (stream :> LocalDataChannel) @@ mDataChannels
             /\ UNCHANGED <<mRemoteFingerprint, mSctpPort, mDtlsTransport,
                            mSctpTransport, callbackVars, recorded, mConfig, threads>>
             /\ IF ~agentOk
                THEN \* initIceTransport throws after the insert
                     /\ last' = [Call("createDataChannel") EXCEPT
                                    !.threw = TRUE, !.stream = stream]
                     /\ UNCHANGED <<mIceTransport, created, app, agent>>
                ELSE /\ initIceTransport(Active)
                     /\ triggerLocalDescription
                     /\ IF IceGatherThrows(gatherOk)
                        THEN /\ last' = [Call("createDataChannel") EXCEPT
                                            !.threw = TRUE, !.stream = stream,
                                            !.did = "established"]
                             /\ UNCHANGED agent
                        ELSE /\ gatherLocalCandidates
                             /\ last' = [Call("createDataChannel") EXCEPT
                                            !.stream = stream, !.did = "established"]
        ELSE LET ready == sctpTransportIsReady
                 channel == IF ready THEN open(LocalDataChannel) ELSE LocalDataChannel
             IN  /\ mDataChannels' = (stream :> channel) @@ mDataChannels
                 /\ last' = [Call("createDataChannel") EXCEPT
                                !.stream = stream,
                                !.did = IF ready THEN "opened" ELSE "nothing"]
                 /\ UNCHANGED <<mRemoteFingerprint, mSctpPort, mIceTransport,
                                mDtlsTransport, mSctpTransport, callbackVars,
                                agent, app, created, recorded, mConfig, threads>>

\* PeerConnection::onLocalDescription
onLocalDescription ==
    /\ mLocalDescriptionCallback' = TRUE
    /\ last' = Call("onLocalDescription")
    /\ UNCHANGED <<pcVars, mLocalCandidateCallback, agent, app, created, recorded, mConfig, threads>>

\* PeerConnection::onLocalCandidate
onLocalCandidate ==
    /\ mLocalCandidateCallback' = TRUE
    /\ last' = Call("onLocalCandidate")
    /\ UNCHANGED <<pcVars, mLocalDescriptionCallback, agent, app, created, recorded, mConfig, threads>>

(***************************************************************************)
(* PeerConnection: what the SctpTransport calls                            *)
(***************************************************************************)
\* The byte `*message->data()` yields.  On an empty payload the read is past
\* the end of the buffer: any byte (`wild`) may come back.
firstByte(message, wild) ==
    IF Len(message.data) > 0 THEN message.data[1] ELSE wild

\* The condition under which forwardMessage takes a message on an unknown
\* stream for the open of a peer-initiated DataChannel.
isOpenMessage(message, wild) ==
    /\ message.type = Control
    /\ firstByte(message, wild) = dataChannelOpenMessage
    /\ message.stream % 2 = remoteParity(mIceTransport.mRole)

\* PeerConnection::forwardMessage
forwardMessage(message, wild) ==
    IF ~mIceTransport.exists \/ ~mSctpTransport.exists
    THEN /\ last' = [Call("forwardMessage") EXCEPT !.threw = TRUE,
                                                    !.stream = message.stream]
         /\ UNCHANGED mDataChannels
    ELSE IF message.stream \in DOMAIN mDataChannels
    THEN \* channel->incoming(message) on the registered channel
         /\ last' = [Call("forwardMessage") EXCEPT !.stream = message.stream,
                                                    !.did = "delivered"]
         /\ UNCHANGED mDataChannels
    ELSE IF isOpenMessage(message, wild)
    THEN \* a new channel, registered, then channel->incoming(message)
         /\ mDataChannels' = (message.stream :> RemoteDataChannel) @@ mDataChannels
         /\ last' = [Call("forwardMessage") EXCEPT !.stream = message.stream,
                                                    !.did = "accepted"]
    ELSE \* mSctpTransport->reset(message->stream)
         /\ last' = [Call("forwardMessage") EXCEPT !.stream = message.stream,
                                                    !.did = "reset"]
         /\ UNCHANGED mDataChannels

(***************************************************************************)
(* IceTransport: the agent's signals                                       *)
(***************************************************************************)
\* IceTransport::changeState
changeState(state) ==
    IF state = READY
    THEN \* mReadyCallback(), which is PeerConnection::initDtlsTransport
         /\ mIceTransport' = [mIceTransport EXCEPT !.mState = state,
                                                   !.readyCalls = @ + 1]
         /\ initDtlsTransport
    ELSE /\ mIceTransport' = [mIceTransport EXCEPT !.mState = state]
         /\ UNCHANGED <<mDtlsTransport, created>>

\* IceTransport::StateChangedCallback: the agent signals that the component
\* changed to `state`.
StateChangedCallback(state) ==
    /\ mIceTransport.exists
    /\ state # mIceTransport.mState
    /\ state = READY => mIceTransport.readyCalls < MaxReady
    /\ changeState(state)
    /\ last' = Call("changeState")
    /\ UNCHANGED <<mRemoteFingerprint, mSctpPort, mSctpTransport, mDataChannels,
                   callbackVars, agent, app, recorded, mConfig, threads>>

\* IceTransport::processCandidate
processCandidate(candidate) ==
    triggerLocalCandidate(Some(Candidate(candidate, StreamName)))

\* IceTransport::processGatheringDone
processGatheringDone == triggerLocalCandidate(nullopt)

\* IceTransport::CandidateCallback: the agent found its next local candidate.
CandidateCallback ==
    /\ mIceTransport.exists
    /\ agent.gathering = "running"
    /\ Len(agent.emitted) < MaxCandidates
    /\ LET candidate == CandidateText(Len(agent.emitted) + 1)
       IN  /\ agent' = [agent EXCEPT !.emitted = Append(@, candidate)]
           /\ processCandidate(candidate)
    /\ last' = Call("processCandidate")
    /\ UNCHANGED <<pcVars, callbackVars, created, recorded, mConfig, threads>>

\* IceTransport::GatheringDoneCallback: the agent ended the gathering cycle.
GatheringDoneCallback ==
    /\ mIceTransport.exists
    /\ agent.gathering = "running"
    /\ agent' = [agent EXCEPT !.gathering = "done"]
    /\ processGatheringDone
    /\ last' = Call("processGatheringDone")
    /\ UNCHANGED <<pcVars, callbackVars, created, recorded, mConfig, threads>>

(***************************************************************************)
(* DtlsTransport and SctpTransport: the events they raise.  Their sources  *)
(* are not at hand; these follow their contract with the PeerConnection.   *)
(***************************************************************************)
\* The DTLS handshake of the current DtlsTransport reaches the certificate
\* check, the peer presenting `fingerprint`: accepted, the handshake completes
\* and the ready callback (initSctpTransport) runs; refused, it fails.
DtlsHandshake(fingerprint) ==
    /\ mDtlsTransport.exists
    /\ mDtlsTransport.handshake = "pending"
    /\ IF checkFingerprint(fingerprint)
       THEN /\ mDtlsTransport' = [mDtlsTransport EXCEPT
                                     !.handshake = "done",
                                     !.presented = Some(fingerprint)]
            /\ initSctpTransport
            /\ last' = [Call("handshake") EXCEPT !.did = "accepted"]
       ELSE /\ mDtlsTransport' = [mDtlsTransport EXCEPT
                                     !.handshake = "failed",
                                     !.presented = Some(fingerprint)]
            /\ UNCHANGED <<mSctpTransport, created>>
            /\ last' = [Call("handshake") EXCEPT !.did = "refused"]
    /\ UNCHANGED <<mRemoteFingerprint, mSctpPort, mIceTransport, mDataChannels,
                   callbackVars, agent, app, recorded, mConfig, threads>>

\* The SCTP association of the current SctpTransport is up: it becomes ready
\* and runs its ready callback (openDataChannels).
SctpReady ==
    /\ mSctpTransport.exists
    /\ ~mSctpTransport.ready
    /\ mSctpTransport' = [mSctpTransport EXCEPT !.ready = TRUE]
    /\ openDataChannels
    /\ last' = Call("openDataChannels")
    /\ UNCHANGED <<mRemoteFingerprint, mSctpPort, mIceTransport, mDtlsTransport,
                   callbackVars, agent, app, created, recorded, mConfig, threads>>

\* The ready SctpTransport received a message and hands it to its receive
\* callback (forwardMessage).
SctpReceive(message, wild) ==
    /\ mSctpTransport.exists
    /\ mSctpTransport.ready
    /\ forwardMessage(message, wild)
    /\ UNCHANGED <<mRemoteFingerprint, mSctpPort, mIceTransport, mDtlsTransport,
                   mSctpTransport, callbackVars, agent, app, created, recorded, mConfig, threads>>

\* The application's calls that exchange descriptions and candidates.
SetRemoteDescriptionCall ==
    \E fingerprint \in {nullopt} \cup {Some(f) : f \in Fingerprints},
       sctpPort \in {nullopt} \cup {Some(p) : p \in SctpPorts},
       parseResult \in ParseResults :
      \E agentOk \in IF mIceTransport.exists THEN {TRUE} ELSE BOOLEAN :
        \E gatherOk \in IF mIceTransport.exists \/ ~agentOk THEN {TRUE} ELSE BOOLEAN :
            setRemoteDescription(fingerprint, sctpPort, agentOk, parseResult, gatherOk)

CreateDataChannelCall ==
    \E agentOk \in IF mIceTransport.exists THEN {TRUE} ELSE BOOLEAN :
      \E gatherOk \in IF mIceTransport.exists \/ ~agentOk THEN {TRUE} ELSE BOOLEAN :
        createDataChannel(agentOk, gatherOk)

SctpReceiveEvent ==
    \E message \in Messages :
      \E wild \in IF message.data = <<>> THEN Bytes ELSE {0} :
        SctpReceive(message, wild)

\* Every call and every event.
Next ==
    \/ SetRemoteDescriptionCall
    \/ \E candidate \in RemoteCandidateTexts : setRemoteCandidate(candidate)
    \/ CreateDataChannelCall
    \/ onLocalDescription
    \/ onLocalCandidate
    \/ \E state \in IceStates : StateChangedCallback(state)
    \/ CandidateCallback
    \/ GatheringDoneCallback
    \/ \E fingerprint \in Fingerprints : DtlsHandshake(fingerprint)
    \/ SctpReady
    \/ SctpReceiveEvent

\* The transport chain and the channel registry: the calls and events that
\* touch mIceTransport, mDtlsTransport, mSctpTransport and mDataChannels.
NextChain ==
    \/ SetRemoteDescriptionCall
    \/ CreateDataChannelCall
    \/ \E state \in IceStates : StateChangedCallback(state)
    \/ \E fingerprint \in Fingerprints : DtlsHandshake(fingerprint)
    \/ SctpReady
    \/ SctpReceiveEvent

\* The signalling exchange: descriptions and candidates between the
\* application, the PeerConnection and the ICE agent.
NextSignal ==
    \/ SetRemoteDescriptionCall
    \/ \E candidate \in RemoteCandidateTexts : setRemoteCandidate(candidate)
    \/ CreateDataChannelCall
    \/ onLocalDescription
    \/ onLocalCandidate
    \/ CandidateCallback
    \/ GatheringDoneCallback

\* Every call and event but setRemoteDescription: the behaviours in which the
\* application has supplied no remote description.
NextNoRemote ==
    \/ \E candidate \in RemoteCandidateTexts : setRemoteCandidate(candidate)
    \/ CreateDataChannelCall
    \/ onLocalDescription
    \/ onLocalCandidate
    \/ \E state \in IceStates : StateChangedCallback(state)
    \/ CandidateCallback
    \/ GatheringDoneCallback
    \/ \E fingerprint \in Fingerprints : DtlsHandshake(fingerprint)

(***************************************************************************)
(* The calls statement by statement, for the threads that run them at the  *)
(* same time.  PeerConnection holds no lock: between two statements of one *)
(* thread the others may run.  `last` describes whole calls and is left    *)
(* alone here.                                                             *)
(***************************************************************************)
\* createDataChannel, lines 74-83: the role, the search for a free stream and
\* the insert into mDataChannels.
createDataChannel_insert ==
    /\ threads.create.pc = "idle"
    /\ LET role == IF mIceTransport.exists THEN mIceTransport.mRole ELSE Active
           stream == allocateStream(mDataChannels, firstStream(role))
       IN  /\ stream # TooManyDataChannels
           /\ mDataChannels' = (stream :> LocalDataChannel) @@ mDataChannels
           /\ threads' = [threads EXCEPT !.create.pc = "inserted",
                                         !.create.stream = stream]
    /\ UNCHANGED <<mRemoteFingerprint, mSctpPort, mIceTransport, mDtlsTransport,
                   mSctpTransport, callbackVars, agent, app, created, recorded,
                   last, mConfig>>

\* createDataChannel, line 85: if (!mIceTransport)
createDataChannel_testIce ==
    /\ threads.create.pc = "inserted"
    /\ threads' = [threads EXCEPT !.create.pc =
                      IF ~mIceTransport.exists THEN "init" ELSE "testSctp"]
    /\ UNCHANGED <<pcVars, callbackVars, agent, app, created, recorded, last, mConfig>>

\* createDataChannel, line 86: initIceTransport(Active)
createDataChannel_init ==
    /\ threads.create.pc = "init"
    /\ initIceTransport(Active)
    /\ threads' = [threads EXCEPT !.create.pc = "trigger", !.create.made = TRUE]
    /\ UNCHANGED <<mRemoteFingerprint, mSctpPort, mDtlsTransport, mSctpTransport,
                   mDataChannels, callbackVars, agent, app, recorded, last, mConfig>>

\* createDataChannel, line 87: triggerLocalDescription()
createDataChannel_trigger ==
    /\ threads.create.pc = "trigger"
    /\ UNCHANGED <<pcVars, callbackVars, agent, created, recorded, last, mConfig>>
    /\ triggerLocalDescription
    /\ threads' = [threads EXCEPT !.create.pc = "gather"]

\* createDataChannel, line 88: mIceTransport->gatherLocalCandidates()
createDataChannel_gather ==
    /\ threads.create.pc = "gather"
    /\ gatherLocalCandidates
    /\ threads' = [threads EXCEPT !.create.pc = "idle"]
    /\ UNCHANGED <<pcVars, callbackVars, app, created, recorded, last, mConfig>>

\* createDataChannel, line 89: else if (mSctpTransport && isReady())
createDataChannel_testSctp ==
    /\ threads.create.pc = "testSctp"
    /\ threads' = [threads EXCEPT !.create.pc =
                      IF sctpTransportIsReady THEN "open" ELSE "idle"]
    /\ UNCHANGED <<pcVars, callbackVars, agent, app, created, recorded, last, mConfig>>

\* createDataChannel, line 90: channel->open(mSctpTransport)
createDataChannel_open ==
    /\ threads.create.pc = "open"
    /\ mDataChannels' = [mDataChannels EXCEPT ![threads.create.stream] = open(@)]
    /\ threads' = [threads EXCEPT !.create.pc = "idle"]
    /\ UNCHANGED <<mRemoteFingerprint, mSctpPort, mIceTransport, mDtlsTransport,
                   mSctpTransport, callbackVars, agent, app, created, recorded,
                   last, mConfig>>

\* setRemoteDescription, lines 42-49: the fingerprint and the port recorded.
setRemoteDescription_record(fingerprint, sctpPort) ==
    /\ threads.describe.pc = "idle"
    /\ mRemoteFingerprint' = IF fingerprint # nullopt THEN fingerprint
                                                      ELSE mRemoteFingerprint
    /\ recorded' = IF fingerprint # nullopt THEN recorded \cup {fingerprint[1]}
                                            ELSE recorded
    /\ mSctpPort' = IF sctpPort # nullopt THEN sctpPort[1] ELSE mSctpPort
    /\ threads' = [threads EXCEPT !.describe.pc = "test"]
    /\ UNCHANGED <<mIceTransport, mDtlsTransport, mSctpTransport, mDataChannels,
                   callbackVars, agent, app, created, last, mConfig>>

\* setRemoteDescription, line 51: if (!mIceTransport)
setRemoteDescription_testIce ==
    /\ threads.describe.pc = "test"
    /\ threads' = [threads EXCEPT !.describe.pc =
                      IF ~mIceTransport.exists THEN "init" ELSE "update"]
    /\ UNCHANGED <<pcVars, callbackVars, agent, app, created, recorded, last, mConfig>>

\* setRemoteDescription, line 52: initIceTransport(ActPass)
setRemoteDescription_init ==
    /\ threads.describe.pc = "init"
    /\ initIceTransport(ActPass)
    /\ threads' = [threads EXCEPT !.describe.pc = "feed", !.describe.made = TRUE]
    /\ UNCHANGED <<mRemoteFingerprint, mSctpPort, mDtlsTransport, mSctpTransport,
                   mDataChannels, callbackVars, agent, app, recorded, last, mConfig>>

\* setRemoteDescription, line 53: mIceTransport->setRemoteDescription(desc);
\* a throw ends the call.
setRemoteDescription_feed(parseResult) ==
    /\ threads.describe.pc = "feed"
    /\ threads' = [threads EXCEPT !.describe.pc =
                      IF IceSetRemoteDescriptionThrows(parseResult)
                      THEN "idle" ELSE "trigger"]
    /\ UNCHANGED <<pcVars, callbackVars, agent, app, created, recorded, last, mConfig>>

\* setRemoteDescription, line 54: triggerLocalDescription()
setRemoteDescription_trigger ==
    /\ threads.describe.pc = "trigger"
    /\ UNCHANGED <<pcVars, callbackVars, agent, created, recorded, last, mConfig>>
    /\ triggerLocalDescription
    /\ threads' = [threads EXCEPT !.describe.pc = "gather"]

\* setRemoteDescription, line 55: mIceTransport->gatherLocalCandidates()
setRemoteDescription_gather ==
    /\ threads.describe.pc = "gather"
    /\ gatherLocalCandidates
    /\ threads' = [threads EXCEPT !.describe.pc = "idle"]
    /\ UNCHANGED <<pcVars, callbackVars, app, created, recorded, last, mConfig>>

\* setRemoteDescription, line 57: the update path
setRemoteDescription_update ==
    /\ threads.describe.pc = "update"
    /\ threads' = [threads EXCEPT !.describe.pc = "idle"]
    /\ UNCHANGED <<pcVars, callbackVars, agent, app, created, recorded, last, mConfig>>

\* The background thread between two callbacks: the agent signals READY.
IceThreadReady ==
    /\ threads.ice.pc = "idle"
    /\ StateChangedCallback(READY)

\* The background thread between two callbacks: the handshake's check.
IceThreadHandshake ==
    /\ threads.ice.pc = "idle"
    /\ \E fingerprint \in Fingerprints : DtlsHandshake(fingerprint)

\* The SctpTransport becomes ready: isReady() answers true from here on, and
\* the ready callback is about to run.
SctpReady_report ==
    /\ threads.ice.pc = "idle"
    /\ mSctpTransport.exists
    /\ ~mSctpTransport.ready
    /\ mSctpTransport' = [mSctpTransport EXCEPT !.ready = TRUE]
    /\ threads' = [threads EXCEPT !.ice.pc = "openDataChannels"]
    /\ UNCHANGED <<mRemoteFingerprint, mSctpPort, mIceTransport, mDtlsTransport,
                   mDataChannels, callbackVars, agent, app, created, recorded,
                   last, mConfig>>

\* The ready callback: openDataChannels, lines 156-159.
SctpReady_openDataChannels ==
    /\ threads.ice.pc = "openDataChannels"
    /\ openDataChannels
    /\ threads' = [threads EXCEPT !.ice.pc = "idle"]
    /\ UNCHANGED <<mRemoteFingerprint, mSctpPort, mIceTransport, mDtlsTransport,
                   mSctpTransport, callbackVars, agent, app, created, recorded,
                   last, mConfig>>

\* The threads of one PeerConnection, each at its own statement.
NextThreads ==
    \/ createDataChannel_insert
    \/ createDataChannel_testIce
    \/ createDataChannel_init
    \/ createDataChannel_trigger
    \/ createDataChannel_gather
    \/ createDataChannel_testSctp
    \/ createDataChannel_open
    \/ \E fingerprint \in {Some(f) : f \in Fingerprints} :
          setRemoteDescription_record(fingerprint, nullopt)
    \/ setRemoteDescription_testIce
    \/ setRemoteDescription_init
    \/ \E parseResult \in ParseResults : setRemoteDescription_feed(parseResult)
    \/ setRemoteDescription_trigger
    \/ setRemoteDescription_gather
    \/ setRemoteDescription_update
    \/ onLocalDescription
    \/ IceThreadReady
    \/ IceThreadHandshake
    \/ SctpReady_report
    \/ SctpReady_openDataChannels

\* A PeerConnection constructed with any configuration.
InitConfigured ==
    /\ mConfig \in Configs
    /\ Constructed

\* The two calls that construct the ICE session.
NextIce ==
    \/ SetRemoteDescriptionCall
    \/ CreateDataChannelCall

Spec == Init /\ [][Next]_vars
SpecIce == InitConfigured /\ [][NextIce]_vars
SpecThreads == Init /\ [][NextThreads]_vars
SpecNoRemote == Init /\ [][NextNoRemote]_vars
SpecChain == Init /\ [][NextChain]_vars
SpecSignal == Init /\ [][NextSignal]_vars

\* The lower layers make progress: the agent reaches READY, the DTLS
\* handshake runs its certificate check, the SCTP association comes up.
FairChain ==
    /\ SpecChain
    /\ WF_vars(StateChangedCallback(READY))
    /\ WF_vars(\E fingerprint \in Fingerprints : DtlsHandshake(fingerprint))
    /\ WF_vars(SctpReady)

(***************************************************************************)
(* The transport chain                                                     *)
(***************************************************************************)
\* C1: in every reachable state the transports form a strict chain: a
\* DtlsTransport exists only if an IceTransport exists; an SctpTransport
\* exists only if a DtlsTransport exists and the DtlsTransport it is bound to
\* completed a handshake in which the peer presented a fingerprint equal to one
\* setRemoteDescription recorded; while no fingerprint was ever recorded,
\* checkFingerprint refuses every value and there is no SctpTransport.
C1_TransportChain ==
    /\ mDtlsTransport.exists => mIceTransport.exists
    /\ mSctpTransport.exists =>
          /\ mDtlsTransport.exists
          /\ mSctpTransport.lower.exists
          /\ mSctpTransport.lower.handshake = "done"
          /\ mSctpTransport.lower.presented # nullopt
          /\ mSctpTransport.lower.presented[1] \in recorded
    /\ recorded = {} =>
          /\ \A fingerprint \in Fingerprints : ~checkFingerprint(fingerprint)
          /\ ~mSctpTransport.exists
          /\ created.sctp = 0

\* C1's case: the whole chain stands, the SctpTransport bound to a
\* DtlsTransport whose handshake presented the recorded fingerprint.
C1_Witness ==
    /\ mIceTransport.exists
    /\ mDtlsTransport.exists
    /\ mSctpTransport.exists
    /\ mSctpTransport.lower.presented = mRemoteFingerprint

\* C2: at most one IceTransport, one DtlsTransport and one SctpTransport is
\* ever constructed for a PeerConnection.
C2_AtMostOneOfEach ==
    /\ created.ice <= 1
    /\ created.dtls <= 1
    /\ created.sctp <= 1

\* C3: once the SctpTransport reports ready, open is called exactly once on
\* every locally created DataChannel: never twice, not zero times while the
\* transport is ready, and inside createDataChannel when the channel is
\* created after the transport became ready.
C3_OpenedExactlyOnce ==
    /\ \A s \in DOMAIN mDataChannels :
          mDataChannels[s].local =>
             /\ mDataChannels[s].opens <= 1
             /\ (mSctpTransport.exists /\ mSctpTransport.ready)
                   => mDataChannels[s].opens = 1
    /\ ( /\ last.op = "createDataChannel"
         /\ last.stream \in DOMAIN mDataChannels
         /\ created.sctp > 0
         /\ mSctpTransport.ready ) => last.did = "opened"

\* C9: over the lifetime of an IceTransport the ready callback is invoked
\* exactly once, at the first change into READY, and not again.
C9_ReadyCallbackOnce ==
    mIceTransport.exists =>
        /\ mIceTransport.readyCalls <= 1
        /\ mIceTransport.mState = READY => mIceTransport.readyCalls = 1

(***************************************************************************)
(* The channel registry                                                    *)
(***************************************************************************)
\* The parity of the stream ids createDataChannel hands out: even when the
\* role is Active or there is no ICE session yet, odd otherwise.
LocalParity ==
    IF mIceTransport.exists /\ mIceTransport.mRole # Active THEN 1 ELSE 0

\* The stream ids of the local parity below the limit that are not registered.
FreeLocalIds ==
    {s \in 0 .. (StreamLimit - 1) :
        s % 2 = LocalParity /\ s \notin DOMAIN mDataChannels}

Lowest(S) == CHOOSE x \in S : \A y \in S : x <= y

\* C4: a control message with payload 0x03 on a stream id that is not
\* registered: with the remote peer's parity (odd when the role is Active, even
\* otherwise) a DataChannel is created, registered under exactly that id,
\* handed the message, its onOpen wired to triggerDataChannel; with the local
\* parity nothing is registered and that stream is reset.
C4_PeerOpenMessage ==
    [][\A message \in Messages :
          ( /\ message.type = Control
            /\ message.data = <<dataChannelOpenMessage>>
            /\ message.stream \notin DOMAIN mDataChannels
            /\ SctpReceive(message, 0) )
          => IF message.stream % 2 = (IF mIceTransport.mRole = Active THEN 1 ELSE 0)
             THEN /\ DOMAIN mDataChannels' = DOMAIN mDataChannels \cup {message.stream}
                  /\ \A s \in DOMAIN mDataChannels : mDataChannels'[s] = mDataChannels[s]
                  /\ ~mDataChannels'[message.stream].local
                  /\ mDataChannels'[message.stream].onOpen = "triggerDataChannel"
                  /\ last' = [Call("forwardMessage") EXCEPT
                                 !.stream = message.stream, !.did = "accepted"]
             ELSE /\ mDataChannels' = mDataChannels
                  /\ last' = [Call("forwardMessage") EXCEPT
                                 !.stream = message.stream, !.did = "reset"]
      ]_vars

\* C4's case: with the role Active, an open message on an odd stream id has
\* been accepted and the peer-initiated channel is registered under that id.
C4_Witness ==
    /\ last.op = "forwardMessage"
    /\ last.did = "accepted"
    /\ mIceTransport.mRole = Active
    /\ last.stream % 2 = 1
    /\ last.stream \in DOMAIN mDataChannels
    /\ ~mDataChannels[last.stream].local

\* C5: every createDataChannel call assigns the lowest stream id of the local
\* parity that is not registered, so the ids of that parity in the registry
\* are the start, start + 2, ... without a gap and the new one is distinct
\* from all of them; when no id of that parity below the limit is free the
\* call throws and leaves the registry and the transports as they were.
C5_LowestFreeId ==
    [][last'.op = "createDataChannel" =>
          IF FreeLocalIds = {}
          THEN /\ last'.threw
               /\ UNCHANGED <<mDataChannels, mIceTransport, mDtlsTransport,
                              mSctpTransport, created>>
          ELSE LET id == Lowest(FreeLocalIds)
               IN  /\ last'.stream = id
                   /\ id \notin DOMAIN mDataChannels
                   /\ DOMAIN mDataChannels' = DOMAIN mDataChannels \cup {id}
                   /\ mDataChannels'[id].local
                   /\ \A s \in DOMAIN mDataChannels :
                         mDataChannels'[s] = mDataChannels[s]
                   /\ {t \in DOMAIN mDataChannels : t % 2 = LocalParity}
                         = {LocalParity + 2 * k : k \in 0 .. ((id - LocalParity) \div 2) - 1}
      ]_vars

\* C5's case: a call found no free id of the local parity and threw, two
\* earlier calls having been given ids.
C5_Witness ==
    /\ last.op = "createDataChannel"
    /\ last.threw
    /\ last.stream = TooManyDataChannels
    /\ Cardinality({s \in DOMAIN mDataChannels : mDataChannels[s].local}) >= 2

\* C6: in every reachable state every locally created DataChannel of the
\* registry has the parity of the role the ICE session holds (even for Active,
\* odd otherwise) and every peer-initiated one the opposite parity.
C6_ParityMatchesRole ==
    mIceTransport.exists =>
        \A s \in DOMAIN mDataChannels :
            s % 2 = IF mDataChannels[s].local THEN LocalParity ELSE 1 - LocalParity

\* The chain has reached SctpReady: the SctpTransport exists and is ready and
\* open has been called on every locally created DataChannel.
SctpReadyState ==
    /\ mSctpTransport.exists
    /\ mSctpTransport.ready
    /\ \A s \in DOMAIN mDataChannels :
          mDataChannels[s].local => mDataChannels[s].opens >= 1

C7_SecondDescriptionOnlyForwards ==
    [][(last'.op = "setRemoteDescription" /\ mIceTransport.exists) =>
          /\ created' = created
          /\ mIceTransport' = mIceTransport
          /\ app' = app
          /\ agent' = agent
          /\ last'.did = "forwarded"
          /\ UNCHANGED <<mDtlsTransport, mSctpTransport, mDataChannels>>
      ]_vars

\* C7's case: a first setRemoteDescription created the session, handed out
\* the local description and started gathering; a second one was forwarded.
C7_Witness ==
    /\ last.op = "setRemoteDescription"
    /\ last.did = "forwarded"
    /\ ~last.threw
    /\ mIceTransport.mRole = ActPass
    /\ Len(app.descriptions) = 1
    /\ agent.gathering # "idle"

\* What the agent has signalled in its gathering cycle, as the values the
\* candidate callback chain hands on: each candidate, then the empty value
\* once gathering is done.
Emitted ==
    [i \in 1 .. Len(agent.emitted) |->
        Some(CandidateString(Candidate(agent.emitted[i], StreamName)))]
    \o (IF agent.gathering = "done" THEN <<nullopt>> ELSE <<>>)

IsSuffix(a, b) ==
    /\ Len(a) <= Len(b)
    /\ a = SubSeq(b, Len(b) - Len(a) + 1, Len(b))

C11_CandidateDroppedBeforeDescription ==
    [][last'.op = "setRemoteCandidate" =>
          /\ ~last'.threw
          /\ last'.did = "nothing"
          /\ UNCHANGED <<pcVars, callbackVars, agent, app, created, recorded>>
      ]_vars

(***************************************************************************)
(* Opening of channels                                                     *)
(***************************************************************************)
\* C12: a DataChannel is opened, or created bound to the SctpTransport and
\* handed a message, only in a step after which the SctpTransport exists and
\* has reported ready; while no SctpTransport exists every registered channel
\* is a locally created one that was never opened.
C12_OpenOnlyWhenReady ==
    /\ [][\A s \in DOMAIN mDataChannels' :
             LET before == IF s \in DOMAIN mDataChannels
                           THEN mDataChannels[s].opens ELSE 0
                 bound == s \notin DOMAIN mDataChannels /\ ~mDataChannels'[s].local
             IN  (mDataChannels'[s].opens > before \/ bound) =>
                    (mSctpTransport'.exists /\ mSctpTransport'.ready)
         ]_vars
    /\ [](~mSctpTransport.exists =>
             \A s \in DOMAIN mDataChannels :
                mDataChannels[s].local /\ mDataChannels[s].opens = 0)

\* C12's case: with the SctpTransport ready, a channel created before it was
\* ready was opened by openDataChannels, one was opened at its creation, and a
\* peer-initiated channel is registered.
C12_Witness ==
    /\ sctpTransportIsReady
    /\ last.op = "createDataChannel"
    /\ last.did = "opened"
    /\ \E s \in DOMAIN mDataChannels : ~mDataChannels[s].local
    /\ \E s \in DOMAIN mDataChannels :
          /\ s # last.stream
          /\ mDataChannels[s].local
          /\ mDataChannels[s].opens = 1

(***************************************************************************)
(* Messages on unknown streams                                             *)
(***************************************************************************)
\* C13: on a stream that is not registered, forwardMessage accepts a message
\* as the open of a DataChannel only if it is a control message whose payload
\* is the single byte 0x03; for every other control payload (another byte, no
\* byte, or more bytes even after a first 0x03) it creates no channel and
\* resets the stream.
C13_OpenIsSingleByte ==
    [][\A message \in Messages, wild \in Bytes :
          (/\ message.stream \notin DOMAIN mDataChannels
           /\ SctpReceive(message, wild)) =>
             /\ last'.did = "accepted" =>
                   (message.type = Control
                    /\ message.data = <<dataChannelOpenMessage>>)
             /\ (message.type = Control
                 /\ message.data # <<dataChannelOpenMessage>>) =>
                   (mDataChannels' = mDataChannels /\ last'.did = "reset")
      ]_vars

\* C16: for a message on a stream that is not registered and that is not the
\* open of a DataChannel (a data message, a control message whose payload is
\* not the single byte 0x03, or an open message on a stream of the wrong
\* parity), forwardMessage resets that stream, throws nothing, creates and
\* changes no channel and leaves the three transports as they are.
C16_InvalidMessageResetsStream ==
    [][\A message \in Messages, wild \in Bytes :
          (/\ SctpReceive(message, wild)
           /\ message.stream \notin DOMAIN mDataChannels
           /\ ~(/\ message.type = Control
                /\ message.data = <<dataChannelOpenMessage>>
                /\ message.stream % 2 = remoteParity(mIceTransport.mRole))) =>
             /\ last' = [Call("forwardMessage") EXCEPT !.stream = message.stream,
                                                        !.did = "reset"]
             /\ UNCHANGED <<mDataChannels, mIceTransport, mDtlsTransport,
                            mSctpTransport, created>>
      ]_vars

(***************************************************************************)
(* Construction of the ICE session                                         *)
(***************************************************************************)
\* C14: with servers configured of which none can be used, the call that
\* would construct the ICE session (setRemoteDescription or createDataChannel
\* without one) throws and leaves no session; no session of a configuration
\* with servers exists without a server bound.
C14_NoUsableServerFails ==
    /\ [][(/\ ~mIceTransport.exists
           /\ mConfig.servers # <<>>
           /\ stunServerChoices(mConfig.servers) = {nullopt}
           /\ last'.op \in {"setRemoteDescription", "createDataChannel"}) =>
             (last'.threw /\ ~mIceTransport'.exists)
         ]_vars
    /\ []((mIceTransport.exists /\ mConfig.servers # <<>>) =>
             mIceTransport.stunServer # nullopt)

(***************************************************************************)
(* Threads                                                                 *)
(***************************************************************************)
\* C15: with createDataChannel on an application thread and the transports'
\* callbacks on the background thread, however their statements interleave,
\* open is never called twice on a locally created DataChannel, and once the
\* SctpTransport is ready and both threads are between calls every locally
\* created DataChannel has been opened.
C15_OpenedOnceUnderInterleaving ==
    \A s \in DOMAIN mDataChannels :
       mDataChannels[s].local =>
          /\ mDataChannels[s].opens <= 1
          /\ (/\ sctpTransportIsReady
              /\ threads.create.pc = "idle"
              /\ threads.ice.pc = "idle") => mDataChannels[s].opens = 1

\* C20: with createDataChannel and setRemoteDescription on two application
\* threads of a PeerConnection that has no ICE session, however their
\* statements interleave, at most one ICE session is constructed, by one of
\* the two calls only and with that call's role, the local description is
\* handed out at most once and gathering is started at most once, and once
\* the constructing call has returned normally, exactly once.
C20_OneSessionUnderInterleaving ==
    /\ created.ice <= 1
    /\ ~(threads.create.made /\ threads.describe.made)
    /\ mIceTransport.exists =>
          mIceTransport.mRole = IF threads.create.made THEN Active ELSE ActPass
    /\ Len(app.descriptions) <= 1
    /\ agent.gatherCalls <= 1
    /\ (threads.create.made /\ threads.create.pc = "idle") => agent.gatherCalls = 1

(***************************************************************************)
(* Remote descriptions that fail                                           *)
(***************************************************************************)
\* C18: a setRemoteDescription call whose description the agent cannot parse
\* (a negative parse result) throws and leaves the PeerConnection as it was:
\* it has constructed no ICE session and the recorded fingerprint and the SCTP
\* port are unchanged.
C18_FailedDescriptionChangesNothing ==
    [][\A fingerprint \in {nullopt} \cup {Some(f) : f \in Fingerprints},
          sctpPort \in {nullopt} \cup {Some(q) : q \in SctpPorts},
          parseResult \in ParseResults :
          (/\ parseResult < 0
           /\ setRemoteDescription(fingerprint, sctpPort, TRUE, parseResult, TRUE)) =>
             /\ last'.threw
             /\ UNCHANGED <<mIceTransport, created, mRemoteFingerprint, mSctpPort>>
      ]_vars

\* C19: IceTransport::setRemoteDescription throws exactly when the agent's
\* parse result is negative; for zero and for every positive result (the
\* number of candidates the description added) it returns normally.  Seen on
\* the update path, where nothing else in setRemoteDescription can throw.
C19_ThrowsOnlyOnParseError ==
    [][\A fingerprint \in {nullopt} \cup {Some(f) : f \in Fingerprints},
          sctpPort \in {nullopt} \cup {Some(q) : q \in SctpPorts},
          parseResult \in ParseResults :
          (/\ mIceTransport.exists
           /\ setRemoteDescription(fingerprint, sctpPort, TRUE, parseResult, TRUE)) =>
             (last'.threw <=> parseResult < 0)
      ]_vars

(***************************************************************************)
(* Order of the signalling steps                                           *)
(***************************************************************************)
\* The step handed the application the local description of the new session:
\* its role, the local certificate's fingerprint, the current SCTP port.
LocalDescriptionEmitted ==
    app' = [app EXCEPT !.descriptions =
               Append(@, Description(mIceTransport'.mRole, LocalFingerprint,
                                     mSctpPort'))]

\* The step started candidate gathering.
GatheringStarted == agent'.gatherCalls = agent.gatherCalls + 1

\* C17, with the registration of the callback it depends on: whichever call
\* constructs the ICE session does so with its own role, then (for
\* setRemoteDescription) feeds it the remote description, a rejection ending
\* the call with nothing emitted and no gathering; then hands the local
\* description, with the local fingerprint and the current SCTP port, to the
\* onLocalDescription callback if one is registered; and only then starts
\* gathering, a failure to start leaving the description emitted.  Gathering
\* is started by no other step, and no candidate and no end-of-candidates
\* value reaches the application before gathering was started: so when the
\* callback was registered before the constructing call, the application has
\* the local description before any candidate.
C17_DescriptionBeforeGathering ==
    /\ [][created'.ice = created.ice + 1 =>
             /\ last'.op \in {"setRemoteDescription", "createDataChannel"}
             /\ mIceTransport'.exists
             /\ mIceTransport'.mRole =
                   IF last'.op = "setRemoteDescription" THEN ActPass ELSE Active
             /\ GatheringStarted =>
                   IF mLocalDescriptionCallback THEN LocalDescriptionEmitted
                                                ELSE app' = app
             /\ ~last'.threw => GatheringStarted
             /\ ~LocalDescriptionEmitted => app' = app
         ]_vars
    /\ [][\A fingerprint \in {nullopt} \cup {Some(f) : f \in Fingerprints},
             sctpPort \in {nullopt} \cup {Some(q) : q \in SctpPorts},
             parseResult \in ParseResults, gatherOk \in BOOLEAN :
             (/\ ~mIceTransport.exists
              /\ setRemoteDescription(fingerprint, sctpPort, TRUE, parseResult,
                                      gatherOk)) =>
                IF IceSetRemoteDescriptionThrows(parseResult)
                THEN last'.threw /\ app' = app /\ agent' = agent
                ELSE /\ mLocalDescriptionCallback => LocalDescriptionEmitted
                     /\ GatheringStarted <=> gatherOk
         ]_vars
    /\ [][\A gatherOk \in BOOLEAN :
             (/\ created'.ice = created.ice + 1
              /\ createDataChannel(TRUE, gatherOk)) =>
                /\ mLocalDescriptionCallback => LocalDescriptionEmitted
                /\ GatheringStarted <=> gatherOk
         ]_vars
    /\ [][agent'.gatherCalls # agent.gatherCalls =>
             (created'.ice = created.ice + 1 /\ GatheringStarted)]_vars
    /\ [](agent.gatherCalls = 0 => (app.candidates = <<>> /\ agent.emitted = <<>>))

\* C17's case: the callbacks registered, setRemoteDescription with a port
\* constructed the session, the application received the local description
\* with that port and then the candidates of the gathering cycle.
C17_Witness ==
    /\ mIceTransport.exists
    /\ mIceTransport.mRole = ActPass
    /\ app.descriptions =
          <<Description(ActPass, LocalFingerprint, DefaultSctpPort + 1)>>
    /\ agent.gathering = "done"
    /\ Len(app.candidates) = MaxCandidates + 1

\* C17 as stated, its consequence for every application: whenever the
\* application has received a local candidate or the end-of-candidates value,
\* it has received the local description.
C17_NoCandidateBeforeDescription ==
    app.candidates # <<>> => app.descriptions # <<>>

====
